---- MODULE Spec2Model ----
(***************************************************************************)
(* Model of src/app.py: optimize_scholarship and its nested evaluator      *)
(* calculate_scenario, plus the caller's diff computation.                 *)
(*                                                                         *)
(* Arithmetic.  Dollar inputs are integers (the number_input widgets have  *)
(* integer min_value/value/step).  Rates are multiples of 1/Scale, so      *)
(* every tax, credit and net_position is held exactly as an integer number *)
(* of 1/Scale dollars.  The Python code holds them as binary floats; the   *)
(* model is the exact-arithmetic reading of the same expressions.          *)
(***************************************************************************)
EXTENDS Integers, Sequences, FiniteSets, TLC

VARIABLES
    box_1_tuition,          \* inputs of optimize_scholarship (app.py:5-10)
    box_5_scholarship,
    sch1_line_8r_current,
    form1040_line_11_agi,
    ncd400_line_14_taxable,
    nc_tax_rate,            \* in 1/Scale
    pc,                     \* position in optimize_scholarship / its caller
    coarse_steps,           \* the list built at app.py:79-80
    i,                      \* position of the coarse loop in coarse_steps
    inc,                    \* argument of the latest calculate_scenario call
    res,                    \* result of the latest calculate_scenario call
    call,                   \* which call site produced res
    best_coarse,
    best_final,
    end_fine,
    manual_result,
    diff,
    opportunity,
    coarse_iters,           \* iterations of the loop at app.py:87 so far
    fine_iters,             \* iterations of the loop at app.py:99 so far
    inc_prev,               \* the call before the latest one (evaluator runs)
    res_prev,
    call_prev

inputs == <<box_1_tuition, box_5_scholarship, sch1_line_8r_current,
            form1040_line_11_agi, ncd400_line_14_taxable, nc_tax_rate>>

vars == <<box_1_tuition, box_5_scholarship, sch1_line_8r_current,
          form1040_line_11_agi, ncd400_line_14_taxable, nc_tax_rate,
          pc, coarse_steps, i, inc, res, call, best_coarse, best_final,
          end_fine, manual_result, diff, opportunity, coarse_iters,
          fine_iters, inc_prev, res_prev, call_prev>>

----------------------------------------------------------------------------
(* Bounds of the explored input space *)

MaxTuitionK == 2
MaxScholarshipK == 2
MaxCurrentK == 2
MaxAgiK == 1
MaxStateK == 1
MaxRateK == 1
MaxCandidateK == 9

TuitionValues == {k * k * 2750 : k \in 0..MaxTuitionK}
ScholarshipValues == {k * 1575 : k \in 0..MaxScholarshipK}
CurrentValues == {k * k * 350 : k \in 0..MaxCurrentK}
AgiValues == {16000 + k * 11000 : k \in 0..MaxAgiK}
StateTaxableValues == {k * k * 200 : k \in 0..MaxStateK}
RateValues == {k * 425 : k \in 0..MaxRateK}
CandidateValues == {k * 350 : k \in 0..MaxCandidateK}

----------------------------------------------------------------------------
(* Constants of the program *)

Scale == 10000
FED_STD_DEDUCTION == 15750
NC_STD_DEDUCTION == 12750
LLC_CAP == 2000
LLC_RATE == 2000
coarse_step == 100
MATERIALITY == 5

FED_BRACKETS ==
    << [limit |-> 11925,  rate |-> 1000, inf |-> FALSE],
       [limit |-> 48475,  rate |-> 1200, inf |-> FALSE],
       [limit |-> 103350, rate |-> 2200, inf |-> FALSE],
       [limit |-> 0,      rate |-> 2400, inf |-> TRUE] >>

Max(a, b) == IF a >= b THEN a ELSE b
Min(a, b) == IF a <= b THEN a ELSE b

----------------------------------------------------------------------------
(* 2. CALIBRATION *)

\* Variant: calibrates against the federal standard deduction.
state_adjustment_fed_deduction ==
    IF ncd400_line_14_taxable > 0
    THEN ncd400_line_14_taxable - (form1040_line_11_agi - FED_STD_DEDUCTION)
    ELSE 0

state_adjustment_factor ==
    IF ncd400_line_14_taxable > 0
    THEN ncd400_line_14_taxable - (form1040_line_11_agi - NC_STD_DEDUCTION)
    ELSE 0

base_fed_income == form1040_line_11_agi - sch1_line_8r_current

----------------------------------------------------------------------------
(* 3. CALCULATION ENGINE *)

\* Variant: the candidate is used unclamped.
ClampNone(inclusion_amount) == inclusion_amount

Clamp(inclusion_amount) ==
    IF inclusion_amount > box_5_scholarship
    THEN box_5_scholarship
    ELSE inclusion_amount

RECURSIVE BracketLoop(_, _, _, _)
BracketLoop(k, remaining, prev_limit, fed_tax) ==
    LET b == FED_BRACKETS[k]
        bracket_amt == IF b.inf THEN remaining
                       ELSE Min(remaining, b.limit - prev_limit)
        tax == fed_tax + bracket_amt * b.rate
        rem == remaining - bracket_amt
    IN  IF rem <= 0 \/ k = Len(FED_BRACKETS)
        THEN tax
        ELSE BracketLoop(k + 1, rem, b.limit, tax)

FedTax(new_agi) == BracketLoop(1, Max(0, new_agi - FED_STD_DEDUCTION), 0, 0)

NcTaxable(new_agi) ==
    Max(0, new_agi - NC_STD_DEDUCTION + state_adjustment_factor)

\* Variant: nets the taxable part, not the tax-free part, against tuition.
QualifiedExpensesSwapped(inclusion_amount) ==
    Max(0, box_1_tuition - Min(inclusion_amount, box_5_scholarship))

QualifiedExpenses(inclusion_amount) ==
    LET tax_free_scholarship == Max(0, box_5_scholarship - inclusion_amount)
    IN  Max(0, box_1_tuition - tax_free_scholarship)

PotentialCredit(qualified_expenses) ==
    Min(LLC_CAP * Scale, qualified_expenses * LLC_RATE)

calculate_scenario(x) ==
    LET inclusion_amount == Clamp(x)
        new_agi == base_fed_income + inclusion_amount
        fed_tax == FedTax(new_agi)
        nc_tax == NcTaxable(new_agi) * nc_tax_rate
        qualified_expenses == QualifiedExpenses(inclusion_amount)
        usable_credit == Min(PotentialCredit(qualified_expenses), fed_tax)
    IN  [ inclusion |-> inclusion_amount,
          net_position |-> usable_credit - (fed_tax + nc_tax),
          fed_tax |-> fed_tax,
          nc_tax |-> nc_tax,
          credit |-> usable_credit,
          agi |-> new_agi,
          expenses_to_claim |-> qualified_expenses ]

----------------------------------------------------------------------------
(* 4. OPTIMIZATION LOOP *)

\* Variant: the operands of the floor are swapped.
min_inclusion_swapped == Max(0, box_1_tuition - box_5_scholarship)

min_inclusion == Max(0, box_5_scholarship - box_1_tuition)

RangeLen(a, b, step) == IF b > a THEN (b - a + step - 1) \div step ELSE 0

Range(a, b, step) == [k \in 1..RangeLen(a, b, step) |-> a + (k - 1) * step]

CoarseSteps ==
    Append(Range(min_inclusion, box_5_scholarship, coarse_step),
           box_5_scholarship)

\* Variant: the baseline is the as-filed amount, not raised to the floor.
safe_baseline_unguarded == sch1_line_8r_current

safe_baseline_inclusion == Max(sch1_line_8r_current, min_inclusion)

CoarseBetter(r, best) == r.net_position > best.net_position

\* Variants: the fine comparison strict, and the fine comparison reversed.
FineBetterStrict(r, best) == r.net_position > best.net_position

FineBetterFlipped(r, best) == r.net_position <= best.net_position

FineBetter(r, best) == r.net_position >= best.net_position

\* Variant: the fine window starts at the floor.
StartFineFromFloor(best_coarse_val) == min_inclusion

StartFine(best_coarse_val) ==
    Max(min_inclusion, best_coarse_val - coarse_step)

\* Variant: the fine window does not extend above the coarse best.
EndFineNoUp(best_coarse_val) == Min(box_5_scholarship, best_coarse_val)

EndFine(best_coarse_val) ==
    Min(box_5_scholarship, best_coarse_val + coarse_step)

\* Variant: the as-filed scenario is evaluated at the raised baseline.
ManualArgBaseline == safe_baseline_inclusion

ManualArg == sch1_line_8r_current

\* Value of a result variable that the code has not bound yet.
NoResult ==
    [ inclusion |-> 0, net_position |-> 0, fed_tax |-> 0, nc_tax |-> 0,
      credit |-> 0, agi |-> 0, expenses_to_claim |-> 0 ]

----------------------------------------------------------------------------
(* Initial states *)

InputsInit ==
    \/ /\ box_1_tuition \in TuitionValues
       /\ box_5_scholarship \in ScholarshipValues
       /\ sch1_line_8r_current \in CurrentValues
       /\ form1040_line_11_agi \in AgiValues
       /\ ncd400_line_14_taxable \in StateTaxableValues
       /\ nc_tax_rate \in RateValues
    \/ \* the defaults of the input form
       /\ box_1_tuition = 13552
       /\ box_5_scholarship = 14235
       /\ sch1_line_8r_current = 7900
       /\ form1040_line_11_agi = 29639
       /\ ncd400_line_14_taxable = 16889
       /\ nc_tax_rate = 425

LocalsInit ==
    /\ coarse_steps = << >>
    /\ i = 1
    /\ inc = 0
    /\ res = NoResult
    /\ call = "none"
    /\ best_coarse = NoResult
    /\ best_final = NoResult
    /\ end_fine = 0
    /\ manual_result = NoResult
    /\ diff = 0
    /\ opportunity = FALSE
    /\ coarse_iters = 0
    /\ fine_iters = 0
    /\ inc_prev = 0
    /\ res_prev = NoResult
    /\ call_prev = "none"

Init ==
    /\ InputsInit
    /\ LocalsInit
    /\ pc = "start"

----------------------------------------------------------------------------
(* optimize_scholarship *)

\* app.py:74-85: floor, coarse grid, baseline seed
Seed ==
    /\ pc = "start"
    /\ coarse_steps' = CoarseSteps
    /\ i' = 1
    /\ inc' = safe_baseline_inclusion
    /\ res' = calculate_scenario(safe_baseline_inclusion)
    /\ call' = "seed"
    /\ best_coarse' = calculate_scenario(safe_baseline_inclusion)
    /\ pc' = "coarse"
    /\ UNCHANGED <<inputs, best_final, end_fine, manual_result, diff,
                   opportunity, coarse_iters, fine_iters, inc_prev, res_prev,
                   call_prev>>

\* app.py:87-90: one iteration of the coarse loop
CoarseStep ==
    /\ pc = "coarse"
    /\ i <= Len(coarse_steps)
    /\ LET r == calculate_scenario(coarse_steps[i])
       IN  /\ inc' = coarse_steps[i]
           /\ res' = r
           /\ best_coarse' = IF CoarseBetter(r, best_coarse) THEN r
                             ELSE best_coarse
    /\ call' = "coarse"
    /\ i' = i + 1
    /\ coarse_iters' = coarse_iters + 1
    /\ UNCHANGED <<inputs, pc, coarse_steps, best_final, end_fine,
                   manual_result, diff, opportunity, fine_iters, inc_prev,
                   res_prev, call_prev>>

\* app.py:93-98: the coarse loop is exhausted; set up the fine window
FineSetup ==
    /\ pc = "coarse"
    /\ i > Len(coarse_steps)
    /\ end_fine' = EndFine(best_coarse.inclusion)
    /\ inc' = StartFine(best_coarse.inclusion)
    /\ best_final' = best_coarse
    /\ pc' = "fine"
    /\ UNCHANGED <<inputs, coarse_steps, i, res, call, best_coarse,
                   manual_result, diff, opportunity, coarse_iters,
                   fine_iters, inc_prev, res_prev, call_prev>>

\* app.py:99-102: one iteration of the fine loop; inc is the next candidate
FineStep ==
    /\ pc = "fine"
    /\ inc <= end_fine
    /\ LET r == calculate_scenario(inc)
       IN  /\ res' = r
           /\ best_final' = IF FineBetter(r, best_final) THEN r
                            ELSE best_final
    /\ call' = "fine"
    /\ inc' = inc + 1
    /\ fine_iters' = fine_iters + 1
    /\ UNCHANGED <<inputs, pc, coarse_steps, i, best_coarse, end_fine,
                   manual_result, diff, opportunity, coarse_iters, inc_prev,
                   res_prev, call_prev>>

\* app.py:104-105: the as-filed scenario, and return
Manual ==
    /\ pc = "fine"
    /\ inc > end_fine
    /\ inc' = ManualArg
    /\ res' = calculate_scenario(ManualArg)
    /\ call' = "manual"
    /\ manual_result' = calculate_scenario(ManualArg)
    /\ pc' = "returned"
    /\ UNCHANGED <<inputs, coarse_steps, i, best_coarse, best_final,
                   end_fine, diff, opportunity, coarse_iters, fine_iters,
                   inc_prev, res_prev, call_prev>>

\* app.py:128-131: the caller's diff and materiality test
ShowDiff ==
    /\ pc = "returned"
    /\ diff' = best_final.net_position - manual_result.net_position
    /\ opportunity' =
           (best_final.net_position - manual_result.net_position
                > MATERIALITY * Scale)
    /\ pc' = "shown"
    /\ UNCHANGED <<inputs, coarse_steps, i, inc, res, call, best_coarse,
                   best_final, end_fine, manual_result, coarse_iters,
                   fine_iters, inc_prev, res_prev, call_prev>>

Next ==
    \/ Seed
    \/ CoarseStep
    \/ FineSetup
    \/ FineStep
    \/ Manual
    \/ ShowDiff

Spec == Init /\ [][Next]_vars

----------------------------------------------------------------------------
(* The evaluator on its own: calculate_scenario applied to arbitrary       *)
(* non-negative candidates under fixed inputs, keeping the last two calls. *)

InitEval ==
    /\ InputsInit
    /\ LocalsInit
    /\ pc = "eval"

Evaluate ==
    /\ pc = "eval"
    /\ \E x \in CandidateValues \cup {box_5_scholarship, min_inclusion,
                                      sch1_line_8r_current} :
          /\ inc' = x
          /\ res' = calculate_scenario(x)
    /\ call' = "eval"
    /\ inc_prev' = inc
    /\ res_prev' = res
    /\ call_prev' = call
    /\ UNCHANGED <<inputs, pc, coarse_steps, i, best_coarse, best_final,
                   end_fine, manual_result, diff, opportunity, coarse_iters,
                   fine_iters>>

NextEval == Evaluate

SpecEval == InitEval /\ [][NextEval]_vars

----------------------------------------------------------------------------
(* Properties *)

\* The legal range of the inclusion amount, written from the inputs alone.
LegalFloor ==
    IF box_5_scholarship > box_1_tuition
    THEN box_5_scholarship - box_1_tuition
    ELSE 0

LegalRange == LegalFloor..box_5_scholarship

Returned == pc \in {"returned", "shown"}

\* C1: the returned best_final maximizes net_position over every integer
\* inclusion of the legal range [LegalFloor, box_5_scholarship].
C1_BestIsGlobalMax ==
    pc = "returned" =>
        \A x \in LegalRange :
            best_final.net_position >= calculate_scenario(x).net_position

\* C1 witness: a run has returned an optimum strictly inside the legal range
\* that strictly beats both ends of the range and the as-filed scenario.
C1_Witness ==
    /\ pc = "returned"
    /\ LegalFloor < best_final.inclusion
    /\ best_final.inclusion < box_5_scholarship
    /\ best_final.net_position > calculate_scenario(LegalFloor).net_position
    /\ best_final.net_position
           > calculate_scenario(box_5_scholarship).net_position
    /\ best_final.net_position > manual_result.net_position

\* C2: the returned best_final.inclusion lies in the legal range, whatever
\* sch1_line_8r_current is.
C2_BestInLegalRange ==
    Returned =>
        /\ LegalFloor <= best_final.inclusion
        /\ best_final.inclusion <= box_5_scholarship

\* C2 witness: a run returned with a positive floor and an as-filed amount
\* below it.
C2_Witness ==
    /\ Returned
    /\ LegalFloor > 0
    /\ sch1_line_8r_current < LegalFloor

\* The same with an as-filed amount above the scholarship total.
C2_WitnessAbove ==
    /\ Returned
    /\ sch1_line_8r_current > box_5_scholarship

\* C3: when the as-filed inclusion is at or above the floor, the optimum is
\* never worse than the as-filed scenario and the caller's diff is >= 0.
C3_NoRegression ==
    (Returned /\ sch1_line_8r_current >= LegalFloor) =>
        /\ best_final.net_position >= manual_result.net_position
        /\ (pc = "shown" => diff >= 0)

\* C3 witness: the caller has computed a diff for a legal as-filed amount
\* that is not itself on the coarse grid.
C3_Witness ==
    /\ pc = "shown"
    /\ sch1_line_8r_current >= LegalFloor
    /\ sch1_line_8r_current < box_5_scholarship
    /\ (sch1_line_8r_current - LegalFloor) % coarse_step # 0
    /\ diff > 0

\* C4 (as stated): with box_5_scholarship > box_1_tuition the floor is
\* positive and no calculate_scenario call of a run, the manual_result call
\* included, has an inclusion below the floor.
C4_Original ==
    (box_5_scholarship > box_1_tuition /\ call # "none") =>
        /\ LegalFloor > 0
        /\ res.inclusion >= LegalFloor

\* C4 (amended): with box_5_scholarship > box_1_tuition the floor is
\* positive and no call of the search (baseline seed, coarse and fine
\* candidates) has an inclusion below the floor; the manual_result call
\* evaluates min(sch1_line_8r_current, box_5_scholarship) as it is.
C4_SearchRespectsFloor ==
    (box_5_scholarship > box_1_tuition /\ call # "none") =>
        /\ LegalFloor = box_5_scholarship - box_1_tuition
        /\ LegalFloor > 0
        /\ call \in {"seed", "coarse", "fine"} => res.inclusion >= LegalFloor
        /\ call = "manual" =>
               res.inclusion = IF sch1_line_8r_current > box_5_scholarship
                               THEN box_5_scholarship
                               ELSE sch1_line_8r_current

\* C4 witness: the baseline seed was raised to a positive floor because the
\* as-filed amount lies below it.
C4_Witness ==
    /\ call = "seed"
    /\ box_5_scholarship > box_1_tuition
    /\ box_1_tuition > 0
    /\ sch1_line_8r_current < LegalFloor
    /\ res.inclusion = LegalFloor

\* C5: every result of calculate_scenario for a non-negative candidate has
\* 0 <= inclusion <= box_5_scholarship, fed_tax >= 0, nc_tax >= 0,
\* expenses_to_claim >= 0 and 0 <= credit <= min(2000, 0.20 * expenses).
C5_ResultInvariant ==
    call = "eval" =>
        /\ 0 <= res.inclusion
        /\ res.inclusion <= box_5_scholarship
        /\ res.fed_tax >= 0
        /\ res.nc_tax >= 0
        /\ res.expenses_to_claim >= 0
        /\ 0 <= res.credit
        /\ res.credit <= 2000 * 10000
        /\ res.credit * 5 <= res.expenses_to_claim * 10000

\* C5 witness: a candidate above the scholarship total was clamped and the
\* scenario has positive taxes and a positive credit.
C5_Witness ==
    /\ call = "eval"
    /\ inc > box_5_scholarship
    /\ res.inclusion = box_5_scholarship
    /\ res.credit > 0
    /\ res.nc_tax > 0

\* The fine window around the coarse best, written from the inputs.
Window ==
    LET c == best_coarse.inclusion
        lo == IF LegalFloor >= c - 100 THEN LegalFloor ELSE c - 100
        hi == IF box_5_scholarship <= c + 100 THEN box_5_scholarship
              ELSE c + 100
    IN  lo..hi

\* C6: best_final.inclusion is the largest integer of the fine window whose
\* net_position is the maximum over the window.
C6_FineTieBreak ==
    pc = "returned" =>
        /\ best_final.inclusion \in Window
        /\ \A x \in Window :
              LET n == calculate_scenario(x).net_position
              IN  /\ n <= best_final.net_position
                  /\ n = best_final.net_position => x <= best_final.inclusion

\* C6 witness: the window holds two adjacent integers that tie for the best
\* net_position while another point of the window is strictly worse, and the
\* larger of the two was returned.
C6_Witness ==
    /\ pc = "returned"
    /\ best_final.inclusion - 1 \in Window
    /\ calculate_scenario(best_final.inclusion - 1).net_position
           = best_final.net_position
    /\ best_final.inclusion > best_coarse.inclusion
    /\ \E x \in Window :
           calculate_scenario(x).net_position < best_final.net_position

\* C7: manual_result is the evaluator applied to the unmodified
\* sch1_line_8r_current: when that is below the floor, manual_result has
\* inclusion = sch1_line_8r_current and agi = form1040_line_11_agi, while the
\* seed of the coarse stage is evaluated at the floor.
C7_ManualIsAsFiled ==
    sch1_line_8r_current < LegalFloor =>
        /\ call = "seed" => res.inclusion = LegalFloor
        /\ Returned =>
              /\ manual_result.inclusion = sch1_line_8r_current
              /\ manual_result.agi = form1040_line_11_agi

\* C7 witness: the as-filed amount is below the floor and its scenario looks
\* better than the legal optimum.
C7_Witness ==
    /\ Returned
    /\ sch1_line_8r_current < LegalFloor
    /\ manual_result.net_position > best_final.net_position

\* C8 (as stated): the coarse loop runs at most box_5_scholarship/100 + 1
\* iterations and the fine loop at most 201.
C8_Original ==
    /\ coarse_iters * 100 <= box_5_scholarship + 100
    /\ fine_iters <= 201

\* C8 (amended): the coarse loop runs at most ceil(box_5_scholarship/100) + 1
\* iterations and the fine loop at most 201, and the run never stops before
\* the result is returned.
C8_LoopBounds ==
    /\ coarse_iters * 100 <= box_5_scholarship + 199
    /\ fine_iters <= 201
    /\ pc \in {"start", "coarse", "fine", "returned"} => ENABLED Next

\* C8 witness: a run returned after 201 fine iterations and more than
\* box_5_scholarship/100 + 1 coarse iterations.
C8_Witness ==
    /\ pc = "returned"
    /\ fine_iters = 201
    /\ coarse_iters * 100 > box_5_scholarship + 100

\* C9: with the inputs fixed, for candidates x <= y the results satisfy
\* fed_tax(x) <= fed_tax(y), nc_tax(x) <= nc_tax(y), credit(x) <= credit(y).
C9_Monotone ==
    (call = "eval" /\ call_prev = "eval" /\ inc_prev <= inc) =>
        /\ res_prev.fed_tax <= res.fed_tax
        /\ res_prev.nc_tax <= res.nc_tax
        /\ res_prev.credit <= res.credit

\* C9 witness: two evaluations at x < y where both taxes and the credit all
\* strictly grow.
C9_Witness ==
    /\ call = "eval"
    /\ call_prev = "eval"
    /\ inc_prev < inc
    /\ res_prev.fed_tax < res.fed_tax
    /\ res_prev.nc_tax < res.nc_tax
    /\ res_prev.credit < res.credit

\* C10: with ncd400_line_14_taxable > 0 every scenario's state taxable
\* income is max(0, ncd400_line_14_taxable + inclusion - sch1_line_8r_current);
\* so if also sch1_line_8r_current <= box_5_scholarship, manual_result.nc_tax
\* is ncd400_line_14_taxable * nc_tax_rate.
C10_StateCalibration ==
    (ncd400_line_14_taxable > 0 /\ call # "none") =>
        /\ LET t == ncd400_line_14_taxable + res.inclusion
                        - sch1_line_8r_current
           IN  res.nc_tax = (IF t > 0 THEN t ELSE 0) * nc_tax_rate
        /\ (Returned /\ sch1_line_8r_current <= box_5_scholarship) =>
               manual_result.nc_tax = ncd400_line_14_taxable * nc_tax_rate

\* C10 witness: the as-filed scenario reproduces a positive state tax while
\* the optimum's state taxable income is cut off at zero.
C10_Witness ==
    /\ Returned
    /\ ncd400_line_14_taxable > 0
    /\ sch1_line_8r_current <= box_5_scholarship
    /\ manual_result.nc_tax > 0
    /\ manual_result.nc_tax = ncd400_line_14_taxable * nc_tax_rate
    /\ ncd400_line_14_taxable + best_final.inclusion
           - sch1_line_8r_current < 0
    /\ best_final.nc_tax = 0

====
